---- MODULE Spec2Model ----
(***************************************************************************)
(* A model of imagedownloader/downloader.py: the per-item pipeline         *)
(* ImageDownloader.download_image, the sequential entry point              *)
(* ImageDownloader.__call__ and the thread-pool batch call download().     *)
(* The store (the files under store_path) is the shared state; every       *)
(* statement of download_image that touches the network, the store or can  *)
(* raise is one step, so that invocations running on different workers     *)
(* interleave at the places the threads of the program can.                *)
(***************************************************************************)
EXTENDS Naturals, Sequences, FiniteSets, TLC

(* ------------------------------ bounds --------------------------------- *)

\* download_image invocations the caller's thread makes on one store, in
\* single calls and list calls, one after the other.
MaxInvocations == 3

\* Longest list of urls handed to a batch call.
MaxBatch == 2

\* Largest n_workers handed to download().
MaxWorkers == 2

(* ------------------------------- data ---------------------------------- *)

Urls == {"u1", "u2"}

\* The keys of thumbs_size, in the dict's order (self.thumbs_size.items()).
AllThumbIds == {"small", "large"}

ThumbConfigs == {<< >>, <<"small">>, <<"small", "large">>}

\* hashlib.sha1(to_bytes(url)).hexdigest(): a fixed digest per url.
sha1(url) == IF url = "u1" THEN "9f2c" ELSE "41ab"

file_path(url) == <<"full", sha1(url) \o ".jpg">>

\* Variant: the thumbnail file named by the digest of the thumbnail id.
thumb_pathOfThumbId(url, thumb_id) == <<"thumbs", thumb_id, sha1(thumb_id) \o ".jpg">>

thumb_path(url, thumb_id) == <<"thumbs", thumb_id, sha1(url) \o ".jpg">>

Paths ==
    {file_path(u) : u \in Urls} \cup
    {thumb_path(u, t) : u \in Urls, t \in AllThumbIds}

\* A path that holds no file, and a file cut short: what open('wb') leaves
\* until write() has finished, and what a failed write() leaves behind.
NoFile == [kind |-> "nofile"]

Truncated == [kind |-> "truncated"]

\* Source images a server can send: pixels, container format, mode, and how
\* often the pixels went through the lossy JPEG encoder.
SourceImages ==
    { [pix |-> 1, format |-> "JPEG", mode |-> "RGB",  bg |-> "none",  size |-> "full", gen |-> 0],
      [pix |-> 2, format |-> "PNG",  mode |-> "RGBA", bg |-> "alpha", size |-> "full", gen |-> 0] }

\* A body of no bytes, and a body that is no image (an HTML error page).
EmptyBody == [kind |-> "empty"]

GarbageBody == [kind |-> "garbage"]

Bodies == {EmptyBody, GarbageBody} \cup SourceImages

\* What requests.get can do: raise, or return a response. The code never
\* looks at the status.
ConnectionError == [kind |-> "raise"]

Image1 == CHOOSE i \in SourceImages : i.pix = 1

Image2 == CHOOSE i \in SourceImages : i.pix = 2

\* A success with an image, a success with nothing, an error page, and an
\* error status that comes with a (placeholder) image.
Responses ==
    { [kind |-> "response", status |-> 200, content |-> Image1],
      [kind |-> "response", status |-> 200, content |-> EmptyBody],
      [kind |-> "response", status |-> 404, content |-> GarbageBody],
      [kind |-> "response", status |-> 404, content |-> Image2] }

FetchOutcomes == {ConnectionError} \cup Responses

\* Image.open(BytesIO(content)) followed by the load PIL does on first use.
Decodable(content) == content \in SourceImages

\* convert_image: flatten onto white / convert to RGB, resize when a size is
\* given, encode as JPEG. Returns the image and the encoded buffer.
Flatten(img) ==
    IF img.format = "PNG" /\ img.mode = "RGBA"
      THEN [img EXCEPT !.mode = "RGB", !.bg = "white", !.format = "none"]
    ELSE IF img.mode = "P"
      THEN [img EXCEPT !.mode = "RGB", !.bg = "white", !.format = "none"]
    ELSE IF img.mode # "RGB"
      THEN [img EXCEPT !.mode = "RGB", !.format = "none"]
    ELSE img

convert_image(img, size) ==
    LET flat  == Flatten(img)
        sized == IF size # "full" THEN [flat EXCEPT !.size = size, !.format = "none"] ELSE flat
    IN  [img |-> sized,
         buf |-> [kind |-> "jpeg", pix |-> sized.pix, bg |-> sized.bg,
                  size |-> sized.size, gen |-> sized.gen + 1]]

\* Image.open(str(path)) on a stored, complete JPEG file, once loaded.
DecodeFile(content) ==
    [pix |-> content.pix, format |-> "JPEG", mode |-> "RGB", bg |-> content.bg,
     size |-> content.size, gen |-> content.gen]

\* The handle Image.open(str(path)) returns: the pixels are read from the
\* file on first use.
LazyImage == [kind |-> "lazy"]

None == [kind |-> "none"]

\* utils.md5sum(path): the digest of the bytes found on disk.
md5sum(content) == [md5 |-> content]

(* ------------------------------ state ---------------------------------- *)

VARIABLES
    thumbs_size,   \* self.thumbs_size of the downloader (its keys, in order)
    network,       \* what the servers can answer to a GET
    files,         \* the store: path -> bytes on disk
    inv,           \* thread -> its download_image invocation (0: the caller's thread)
    call,          \* the call in progress: __call__(str), __call__(list) or download()
    futures,       \* download(): item -> state of its future
    queue,         \* download(): the executor's work queue (items not yet taken)
    last,          \* the download_image invocation that ended most recently
    ncalls,        \* download_image invocations asked of the caller's thread so far
    trial          \* a comparison of the two batch calls: the answers the
                   \* servers and the disk give, the store at the start, and
                   \* what the list call returned and left in the store

vars == <<thumbs_size, network, files, inv, call, futures, queue, last, ncalls, trial>>

Threads == 0 .. MaxWorkers

Workers == 1 .. MaxWorkers

Idle == [pc |-> "idle"]

NoCall == [kind |-> "none", pc |-> "none"]

NoInvocation == [kind |-> "none"]

\* No comparison is under way: servers and disk answer as they like.
NoTrial == [phase |-> "none"]

UrlLists == UNION {[1 .. n -> Urls] : n \in 1 .. MaxBatch}

Running(t) == inv[t].pc \notin {"idle", "returned", "raised"}

Exists(path) == files[path] # NoFile

Init ==
    /\ thumbs_size \in ThumbConfigs
    /\ network = FetchOutcomes
    /\ files = [p \in Paths |-> NoFile]
    /\ inv = [t \in Threads |-> Idle]
    /\ call = NoCall
    /\ futures = << >>
    /\ queue = << >>
    /\ last = NoInvocation
    /\ ncalls = 0
    /\ trial = NoTrial

(* ------------------------- download_image ------------------------------ *)

\* Entry of download_image(url, force): orig_img = None, path = file_path(url).
\* failed_at (the step an exception came from) and the fields from `existed`
\* on are history: what the invocation found when it began (noted for the
\* invocation on the caller's thread) and what it has done since.
NewInvocation(url, force, item) ==
    [pc |-> "check", url |-> url, force |-> force, item |-> item,
     response |-> None, orig_img |-> None,
     wpath |-> << >>, wbuf |-> None, ti |-> 1,
     result |-> None, error |-> "none", failed_at |-> "none",
     existed |-> FALSE, before |-> NoFile, fetched |-> 0, slept |-> FALSE,
     opened |-> 0, wrote |-> {}, thumbs_before |-> {},
     after |-> IF \E o \in Threads : Running(o) THEN NoInvocation ELSE last]

\* The invocation is in its thumbnail loop (lines 171-176).
InThumbnails(i) ==
    \/ i.pc \in {"thumbs", "thumb_open", "thumb_convert"}
    \/ i.pc \in {"persist_open", "persist_write"} /\ i.wpath # file_path(i.url)

\* Variant: the thumbnail loop catches what a thumbnail raises, gives that
\* thumbnail up and goes on with the next one.
RaisedUnlessThumbnail(i, kind) ==
    IF InThumbnails(i)
      THEN [i EXCEPT !.failed_at = i.pc, !.ti = @ + 1, !.pc = "thumbs"]
      ELSE [i EXCEPT !.pc = "raised", !.error = kind, !.failed_at = i.pc]

\* An exception in a step of download_image: nothing in the function
\* catches it, the invocation ends there.
Raised(i, kind) ==
    [i EXCEPT !.pc = "raised", !.error = kind, !.failed_at = i.pc]

Raise(t, kind) ==
    inv' = [inv EXCEPT ![t] = Raised(inv[t], kind)]

\* Variants of the two conditions, to compare the properties against: a
\* fetch whatever the store holds; a force flag read the wrong way round.
NeedFetchAlways(exists, force) == TRUE

NeedFetchUnlessForced(exists, force) == ~exists \/ ~force

\* `not path.exists() or force`
NeedFetch(exists, force) == ~exists \/ force

\* Variants: all thumbnails remade as soon as one is missing; force not
\* looked at for thumbnails.
NeedThumbIfAnyMissing(t, exists, force) ==
    \/ force
    \/ \E k \in 1 .. Len(thumbs_size) :
          ~Exists(thumb_path(inv[t].url, thumbs_size[k]))

NeedThumbNoForce(t, exists, force) == ~exists

\* `not thumb_path.exists() or force`, asked by invocation t
NeedThumb(t, exists, force) == ~exists \/ force

\* Variant: the sleep placed after the `if`, not in it.
CacheHitSleeps == "sleep"

\* Where download_image goes on when the `if` of the full image is not
\* taken: past the fetch, the persist and the sleep, to the thumbnail loop.
CacheHitContinuesAt == "thumbs"

\* What the invocation on the caller's thread found in the store is noted.
Noted(t, found, nothing) == IF t = 0 THEN found ELSE nothing

\* if not path.exists() or force:
CheckFull(t) ==
    /\ inv[t].pc = "check"
    /\ LET path == file_path(inv[t].url)
       IN  inv' = [inv EXCEPT
                ![t].existed = Noted(t, Exists(path), FALSE),
                ![t].before = Noted(t, files[path], NoFile),
                ![t].thumbs_before = Noted(t,
                    {k \in 1 .. Len(thumbs_size) :
                        Exists(thumb_path(inv[t].url, thumbs_size[k]))}, {}),
                ![t].pc = IF NeedFetch(Exists(path), inv[t].force)
                            THEN "get" ELSE CacheHitContinuesAt]
    /\ UNCHANGED <<thumbs_size, network, trial, files, call, futures, queue, last, ncalls>>

\* Variant: the target file is opened for writing before the fetch.
GetOpensFileFirst(t) ==
    /\ inv[t].pc = "get"
    /\ \E o \in network :
          IF o = ConnectionError
            THEN inv' = [inv EXCEPT
                     ![t] = Raised([inv[t] EXCEPT !.fetched = @ + 1], "transport")]
            ELSE inv' = [inv EXCEPT ![t].pc = "normalize", ![t].response = o,
                                    ![t].fetched = @ + 1]
    /\ files' = [files EXCEPT ![file_path(inv[t].url)] = Truncated]
    /\ UNCHANGED <<thumbs_size, network, trial, call, futures, queue, last, ncalls>>

\* response = requests.get(url, ...)
Get(t) ==
    /\ inv[t].pc = "get"
    /\ \E o \in network :
          IF o = ConnectionError
            THEN inv' = [inv EXCEPT
                     ![t] = Raised([inv[t] EXCEPT !.fetched = @ + 1], "transport")]
            ELSE inv' = [inv EXCEPT ![t].pc = "normalize", ![t].response = o,
                                    ![t].fetched = @ + 1]
    /\ UNCHANGED <<thumbs_size, network, trial, files, call, futures, queue, last, ncalls>>

\* orig_img = Image.open(BytesIO(response.content))
\* img, buf = self.convert_image(orig_img); self._persist_file(path, buf)
Normalize(t) ==
    /\ inv[t].pc = "normalize"
    /\ IF Decodable(inv[t].response.content)
         THEN inv' = [inv EXCEPT
                  ![t].orig_img = inv[t].response.content,
                  ![t].wpath = file_path(inv[t].url),
                  ![t].wbuf = convert_image(inv[t].response.content, "full").buf,
                  ![t].pc = "persist_open"]
         ELSE Raise(t, "decode")
    /\ UNCHANGED <<thumbs_size, network, trial, files, call, futures, queue, last, ncalls>>

\* _persist_file: with path.open('wb') as f -- the file is created or cut
\* to nothing; or the open fails and the store is as it was.
PersistOpen(t) ==
    /\ inv[t].pc = "persist_open"
    /\ \/ /\ files' = [files EXCEPT ![inv[t].wpath] = Truncated]
          /\ inv' = [inv EXCEPT ![t].pc = "persist_write"]
       \/ /\ Raise(t, "persist")
          /\ UNCHANGED files
    /\ UNCHANGED <<thumbs_size, network, trial, call, futures, queue, last, ncalls>>

\* Variant: the sleep forgotten, the thumbnails follow the persist at once.
AfterFullPersistNoSleep == "thumbs"

\* What follows self._persist_file(path, buf) of the full image: the sleep.
AfterFullPersist == "sleep"

\* _persist_file: f.write(buf.getvalue()) -- all bytes reach the file; or
\* the write fails and a cut-short file stays behind. On success control
\* returns to download_image: to the sleep after the full image, to the
\* next thumbnail after a thumbnail.
PersistWrite(t) ==
    /\ inv[t].pc = "persist_write"
    /\ \/ /\ files' = [files EXCEPT ![inv[t].wpath] = inv[t].wbuf]
          /\ inv' = [inv EXCEPT
                ![t].wrote = @ \cup {inv[t].wpath},
                ![t].pc = IF inv[t].wpath = file_path(inv[t].url)
                            THEN AfterFullPersist ELSE "thumbs",
                ![t].ti = IF inv[t].wpath = file_path(inv[t].url)
                            THEN @ ELSE @ + 1]
       \/ /\ files' = [files EXCEPT ![inv[t].wpath] = Truncated]
          /\ Raise(t, "persist")
    /\ UNCHANGED <<thumbs_size, network, trial, call, futures, queue, last, ncalls>>

\* sleep(random.uniform(self.min_wait, self.max_wait))
Sleep(t) ==
    /\ inv[t].pc = "sleep"
    /\ inv' = [inv EXCEPT ![t].slept = TRUE, ![t].pc = "thumbs"]
    /\ UNCHANGED <<thumbs_size, network, trial, files, call, futures, queue, last, ncalls>>

\* Variant: the loop stops one thumbnail short.
LoopOverEarly(ti, n) == ti >= n

\* for thumb_id, size in self.thumbs_size.items(): the items are used up
\* when the loop has gone through all n of them.
LoopOver(ti, n) == ti > n

\* for thumb_id, size in self.thumbs_size.items():
\*     if not thumb_path.exists() or force:
ThumbCheck(t) ==
    /\ inv[t].pc = "thumbs"
    /\ IF LoopOver(inv[t].ti, Len(thumbs_size))
         THEN inv' = [inv EXCEPT ![t].pc = "md5"]
         ELSE LET tp == thumb_path(inv[t].url, thumbs_size[inv[t].ti])
              IN  IF NeedThumb(t, Exists(tp), inv[t].force)
                    THEN inv' = [inv EXCEPT ![t].pc = "thumb_open"]
                    ELSE inv' = [inv EXCEPT ![t].ti = @ + 1]
    /\ UNCHANGED <<thumbs_size, network, trial, files, call, futures, queue, last, ncalls>>

\* Variant: the stored file is opened for every thumbnail.
HaveImageNever(orig_img) == FALSE

\* The left operand of `orig_img or Image.open(str(path))`: an image is
\* at hand, fetched in this invocation or opened for an earlier thumbnail.
HaveImage(orig_img) == orig_img # None

\* orig_img = orig_img or Image.open(str(path)): the file's header is read;
\* a cut-short file may or may not still have one.
ThumbOpen(t) ==
    /\ inv[t].pc = "thumb_open"
    /\ IF HaveImage(inv[t].orig_img)
         THEN inv' = [inv EXCEPT ![t].pc = "thumb_convert"]
         ELSE LET content == files[file_path(inv[t].url)]
              IN  \/ /\ content # NoFile
                     /\ inv' = [inv EXCEPT ![t].orig_img = LazyImage,
                                           ![t].opened = @ + 1,
                                           ![t].pc = "thumb_convert"]
                  \/ /\ content \in {NoFile, Truncated}
                     /\ inv' = [inv EXCEPT
                            ![t] = Raised([inv[t] EXCEPT !.opened = @ + 1], "decode")]
    /\ UNCHANGED <<thumbs_size, network, trial, files, call, futures, queue, last, ncalls>>

\* thumb_image, thumb_buf = self.convert_image(orig_img, size)
\* self._persist_file(thumb_path, thumb_buf)
\* An image opened from the store loads its pixels from the file here.
ThumbConvert(t) ==
    /\ inv[t].pc = "thumb_convert"
    /\ LET content == files[file_path(inv[t].url)]
           lazy    == inv[t].orig_img = LazyImage
           img     == IF lazy THEN DecodeFile(content) ELSE inv[t].orig_img
           tid     == thumbs_size[inv[t].ti]
       IN  IF lazy /\ content \in {NoFile, Truncated}
             THEN Raise(t, "decode")
             ELSE inv' = [inv EXCEPT
                      ![t].orig_img = img,
                      ![t].wpath = thumb_path(inv[t].url, tid),
                      ![t].wbuf = convert_image(img, tid).buf,
                      ![t].pc = "persist_open"]
    /\ UNCHANGED <<thumbs_size, network, trial, files, call, futures, queue, last, ncalls>>

\* Variant: the digest of what was downloaded, not of the file.
ChecksumOfDownload(t) == md5sum(inv[t].response)

\* return md5sum(path)
ReturnedChecksum(t) == md5sum(files[file_path(inv[t].url)])

ReturnChecksum(t) ==
    /\ inv[t].pc = "md5"
    /\ IF Exists(file_path(inv[t].url))
         THEN inv' = [inv EXCEPT ![t].result = ReturnedChecksum(t),
                                 ![t].pc = "returned"]
         ELSE Raise(t, "persist")
    /\ UNCHANGED <<thumbs_size, network, trial, files, call, futures, queue, last, ncalls>>

download_image(t) ==
    \/ CheckFull(t)
    \/ Get(t)
    \/ Normalize(t)
    \/ PersistOpen(t)
    \/ PersistWrite(t)
    \/ Sleep(t)
    \/ ThumbCheck(t)
    \/ ThumbOpen(t)
    \/ ThumbConvert(t)
    \/ ReturnChecksum(t)

\* What `last` becomes when the invocation of thread t ends.
Ended(t) ==
    IF inv[t].pc = "returned"
      THEN [kind |-> "returned", url |-> inv[t].url, force |-> inv[t].force,
            result |-> inv[t].result]
      ELSE NoInvocation

(* ------------------- ImageDownloader.__call__ -------------------------- *)

\* The caller makes its next call when the one before has ended. A
\* behaviour is calls on the caller's thread, or one download().
CanStart(n) ==
    /\ call.kind # "pool"
    /\ call.pc \in {"none", "returned", "raised"}
    /\ ncalls + n <= MaxInvocations

NewCall(kind, urls, force, n_workers, results) ==
    [kind |-> kind, pc |-> "run", urls |-> urls, force |-> force,
     n_workers |-> n_workers, i |-> 1, results |-> results,
     collected |-> {}, error |-> "none"]

\* __call__(url, force) with a str: return self.download_image(urls, force=force)
CallSingle ==
    /\ CanStart(1)
    /\ \E url \in Urls, force \in BOOLEAN :
          /\ call' = NewCall("single", <<url>>, force, 0, None)
          /\ inv' = [inv EXCEPT ![0] = NewInvocation(url, force, 1)]
    /\ ncalls' = ncalls + 1
    /\ UNCHANGED <<thumbs_size, network, trial, files, futures, queue, last>>

\* download_image returned: so does the call.
SingleReturn ==
    /\ call.kind = "single" /\ call.pc = "run"
    /\ inv[0].pc = "returned"
    /\ call' = [call EXCEPT !.pc = "returned", !.results = inv[0].result]
    /\ last' = Ended(0)
    /\ inv' = [inv EXCEPT ![0] = Idle]
    /\ UNCHANGED <<thumbs_size, network, trial, files, futures, queue, ncalls>>

\* Variant: the single call catches the error as the list call does.
SingleRaiseSwallowed ==
    /\ call.kind = "single" /\ call.pc = "run"
    /\ inv[0].pc = "raised"
    /\ call' = [call EXCEPT !.pc = "returned"]
    /\ last' = Ended(0)
    /\ inv' = [inv EXCEPT ![0] = Idle]
    /\ UNCHANGED <<thumbs_size, network, trial, files, futures, queue, ncalls>>

\* download_image raised: nothing catches it, the call raises.
SingleRaise ==
    /\ call.kind = "single" /\ call.pc = "run"
    /\ inv[0].pc = "raised"
    /\ call' = [call EXCEPT !.pc = "raised", !.error = inv[0].error]
    /\ last' = Ended(0)
    /\ inv' = [inv EXCEPT ![0] = Idle]
    /\ UNCHANGED <<thumbs_size, network, trial, files, futures, queue, ncalls>>

\* __call__(urls, force) with a list: checksums = [None] * len(urls)
CallList ==
    /\ \E urls \in UrlLists, force \in BOOLEAN :
          /\ CanStart(Len(urls))
          /\ call' = NewCall("list", urls, force, 0, [k \in 1 .. Len(urls) |-> None])
          /\ ncalls' = ncalls + Len(urls)
    /\ UNCHANGED <<thumbs_size, network, trial, files, inv, futures, queue, last>>

\* for i, url in enumerate(urls): try: checksums[i] = self.download_image(...)
\* and, the list exhausted, return checksums
ListIterate ==
    /\ call.kind = "list" /\ call.pc = "run"
    /\ inv[0].pc = "idle"
    /\ IF call.i <= Len(call.urls)
         THEN /\ inv' = [inv EXCEPT
                    ![0] = NewInvocation(call.urls[call.i], call.force, call.i)]
              /\ UNCHANGED call
         ELSE /\ call' = [call EXCEPT !.pc = "returned"]
              /\ UNCHANGED inv
    /\ UNCHANGED <<thumbs_size, network, trial, files, futures, queue, last, ncalls>>

\* checksums[i] = <the checksum download_image returned>
ListStore ==
    /\ call.kind = "list" /\ call.pc = "run"
    /\ inv[0].pc = "returned"
    /\ call' = [call EXCEPT !.results[call.i] = inv[0].result, !.i = @ + 1]
    /\ last' = Ended(0)
    /\ inv' = [inv EXCEPT ![0] = Idle]
    /\ UNCHANGED <<thumbs_size, network, trial, files, futures, queue, ncalls>>

\* except Exception as e: logger.error(...) -- checksums[i] stays None
ListExcept ==
    /\ call.kind = "list" /\ call.pc = "run"
    /\ inv[0].pc = "raised"
    /\ call' = [call EXCEPT !.i = @ + 1]
    /\ last' = Ended(0)
    /\ inv' = [inv EXCEPT ![0] = Idle]
    /\ UNCHANGED <<thumbs_size, network, trial, files, futures, queue, ncalls>>

(* ----------------------------- download() ------------------------------ *)

NewFuture == [state |-> "new", exception |-> "none", result |-> None]

Finished(k) == futures[k].state = "finished"

Items == 1 .. Len(call.urls)

\* with futures.ThreadPoolExecutor(max_workers=n_workers) as executor:
CallDownload ==
    /\ call.kind = "none"
    /\ ncalls = 0
    /\ \E urls \in UrlLists, force \in BOOLEAN, n_workers \in 1 .. MaxWorkers :
          /\ urls[1] = "u1"      \* the urls are alike: name the first one u1
          /\ call' = NewCall("pool", urls, force, n_workers, << >>)
          /\ futures' = [k \in 1 .. Len(urls) |-> NewFuture]
    /\ queue' = << >>
    /\ UNCHANGED <<thumbs_size, network, trial, files, inv, last, ncalls>>

\* future_to_url = dict((executor.submit(downloader, url, force), url) for url in iterator)
\* and, every url submitted, results = {} and the as_completed loop begins
Submit ==
    /\ call.kind = "pool" /\ call.pc = "run"
    /\ IF call.i <= Len(call.urls)
         THEN /\ futures' = [futures EXCEPT ![call.i].state = "pending"]
              /\ queue' = Append(queue, call.i)
              /\ call' = [call EXCEPT !.i = @ + 1]
         ELSE /\ call' = [call EXCEPT !.pc = "collect"]
              /\ UNCHANGED <<futures, queue>>
    /\ UNCHANGED <<thumbs_size, network, trial, files, inv, last, ncalls>>

\* Variant: a thread per item, whatever n_workers says.
IsPoolThreadUnbounded(w) == w \in Workers

\* max_workers=n_workers: the pool has n_workers threads.
IsPoolThread(w) == w \in 1 .. call.n_workers

\* A free pool thread (the pool's threads are alike: the lowest free one)
\* takes the oldest queued item and runs
\* downloader(url, force), which for a str is download_image(url, force).
WorkerTake(w) ==
    /\ call.kind = "pool"
    /\ IsPoolThread(w)
    /\ inv[w].pc = "idle"
    /\ queue # << >>
    /\ \A v \in 1 .. (w - 1) : inv[v].pc # "idle"
    /\ LET k == Head(queue)
       IN  /\ inv' = [inv EXCEPT ![w] = NewInvocation(call.urls[k], call.force, k)]
           /\ futures' = [futures EXCEPT ![k].state = "running"]
    /\ queue' = Tail(queue)
    /\ UNCHANGED <<thumbs_size, network, trial, files, call, last, ncalls>>

\* The work item ends: future.set_result(...) or future.set_exception(...);
\* the thread is free for the next queued item. Nothing is cancelled.
WorkerReturn(w) ==
    /\ call.kind = "pool"
    /\ inv[w].pc = "returned"
    /\ futures' = [futures EXCEPT ![inv[w].item] =
            [state |-> "finished", exception |-> "none", result |-> inv[w].result]]
    /\ inv' = [inv EXCEPT ![w] = Idle]
    /\ UNCHANGED <<thumbs_size, network, trial, files, call, queue, last, ncalls>>

WorkerRaise(w) ==
    /\ call.kind = "pool"
    /\ inv[w].pc = "raised"
    /\ futures' = [futures EXCEPT ![inv[w].item] =
            [state |-> "finished", exception |-> inv[w].error, result |-> None]]
    /\ inv' = [inv EXCEPT ![w] = Idle]
    /\ UNCHANGED <<thumbs_size, network, trial, files, call, queue, last, ncalls>>

\* results[url] = value
Store(results, url, value) ==
    [u \in DOMAIN results \cup {url} |-> IF u = url THEN value ELSE results[u]]

\* Variant: a failed item is logged and not recorded.
CollectedSuccessesOnly(results, url, future) ==
    IF future.exception # "none"
      THEN results
      ELSE Store(results, url, future.result)

\* if future.exception() is not None: results[url] = None
\* else: results[url] = future.result()
Collected(results, url, future) ==
    IF future.exception # "none"
      THEN Store(results, url, None)
      ELSE Store(results, url, future.result)

\* for future in as_completed(future_to_url): every future is handed out
\* once, when it is done.
Collect ==
    /\ call.kind = "pool" /\ call.pc = "collect"
    /\ \E k \in Items \ call.collected :
          /\ Finished(k)
          /\ call' = [call EXCEPT
                !.results = Collected(call.results, call.urls[k], futures[k]),
                !.collected = @ \cup {k}]
    /\ UNCHANGED <<thumbs_size, network, trial, files, inv, futures, queue, last, ncalls>>

\* Variant: the call gives up at the first failed item, without waiting.
ReturnOnFirstFailure ==
    /\ call.kind = "pool" /\ call.pc = "collect"
    /\ \/ call.collected = Items
       \/ \E k \in call.collected : futures[k].exception # "none"
    /\ call' = [call EXCEPT !.pc = "returned"]
    /\ UNCHANGED <<thumbs_size, network, trial, files, inv, futures, queue, last, ncalls>>

\* The loop is over when as_completed has handed out every future; leaving
\* the with block is executor.shutdown(wait=True); then return results.
ReturnResults ==
    /\ call.kind = "pool" /\ call.pc = "collect"
    /\ call.collected = Items
    /\ \A w \in Workers : inv[w].pc = "idle"
    /\ call' = [call EXCEPT !.pc = "returned"]
    /\ UNCHANGED <<thumbs_size, network, trial, files, inv, futures, queue, last, ncalls>>

(* --------------------------- specification ----------------------------- *)

\* The caller's thread: single calls and list calls, one after the other,
\* on one store, with every answer the servers can give.
Next ==
    \/ CallSingle
    \/ SingleReturn
    \/ SingleRaise
    \/ CallList
    \/ ListIterate
    \/ ListStore
    \/ ListExcept
    \/ download_image(0)

Spec == Init /\ [][Next]_vars

\* All three call shapes, download() among them, with servers that answer
\* with one image or not at all and a downloader of at most one thumbnail.
PoolInit ==
    /\ thumbs_size \in {<< >>, <<"small">>}
    /\ network = {ConnectionError,
                  [kind |-> "response", status |-> 200, content |-> Image1]}
    /\ files = [p \in Paths |-> NoFile]
    /\ inv = [t \in Threads |-> Idle]
    /\ call = NoCall
    /\ futures = << >>
    /\ queue = << >>
    /\ last = NoInvocation
    /\ ncalls = 0
    /\ trial = NoTrial

PoolNext ==
    \/ Next
    \/ CallDownload
    \/ Submit
    \/ \E w \in Workers : WorkerTake(w)
    \/ \E w \in Workers : WorkerReturn(w)
    \/ \E w \in Workers : WorkerRaise(w)
    \/ Collect
    \/ ReturnResults
    \/ \E w \in Workers : download_image(w)

PoolSpec == PoolInit /\ [][PoolNext]_vars

(* ------------- __call__(list) and download(), side by side ------------- *)

\* A comparison runs __call__(urls, force) with a list of distinct urls, and
\* then download(urls, force=force) from the store the list call started
\* from, with servers and a disk that answer the second call as they
\* answered the first: trial.get is the answer to a GET of each url,
\* trial.disk what writing each path does, trial.header whether a file cut
\* short still has a header Image.open can read. The urls differ only in
\* their names and the lists come in both orders, so the damaged files, the
\* failing disk and the undecodable body are given to u1.

\* The files an earlier run that fetched Image1 has stored.
StoredFull == convert_image(Image1, "full").buf

StoredThumb(thumb_id) == convert_image(Image1, thumb_id).buf

\* What earlier invocations can have left for one url: nothing; the full
\* image; a full image cut short by a failed write; the full image and the
\* thumbnail.
ItemStores(url, thumbs) ==
    LET full  == file_path(url)
        small == thumb_path(url, "small")
    IN  { full :> NoFile @@ small :> NoFile,
          full :> StoredFull @@ small :> NoFile,
          full :> Truncated @@ small :> NoFile } \cup
        ( IF thumbs # << >>
            THEN { full :> StoredFull @@ small :> StoredThumb("small") }
            ELSE {} )

\* Nothing, or the full image.
PlainStores(url) ==
    { file_path(url) :> NoFile, file_path(url) :> StoredFull }

StartStores(thumbs) ==
    { [p \in Paths |-> IF p \in DOMAIN a THEN a[p]
                       ELSE IF p \in DOMAIN b THEN b[p] ELSE NoFile] :
        a \in ItemStores("u1", thumbs), b \in PlainStores("u2") }

\* The answers of the servers, one per url.
EquivAnswers ==
    { g \in [Urls -> FetchOutcomes] :
        /\ g["u1"] \in { ConnectionError,
                         [kind |-> "response", status |-> 200, content |-> Image1],
                         [kind |-> "response", status |-> 200, content |-> EmptyBody] }
        /\ g["u2"] \in { ConnectionError,
                         [kind |-> "response", status |-> 404, content |-> Image2] } }

\* The paths of url a downloader with these thumbnails writes.
UsedPaths(url, thumbs) ==
    {file_path(url)} \cup {thumb_path(url, thumbs[k]) : k \in 1 .. Len(thumbs)}

\* The disk takes every write, or fails the open or the write of one path.
DiskAnswers(thumbs) ==
    { [p \in Paths |-> "ok"] } \cup
    { [p \in Paths |-> IF p = q THEN a ELSE "ok"] :
        q \in UsedPaths("u1", thumbs), a \in {"open", "write"} }

EquivInit ==
    /\ thumbs_size \in {<< >>, <<"small">>}
    /\ files \in StartStores(thumbs_size)
    /\ \E get \in EquivAnswers, disk \in DiskAnswers(thumbs_size),
          header \in (IF \E p \in Paths : files[p] = Truncated
                        THEN BOOLEAN ELSE {TRUE}) :
          /\ trial = [phase |-> "list", get |-> get, disk |-> disk,
                      header |-> header, start |-> files,
                      results |-> << >>, files |-> files]
          /\ network = {get[u] : u \in Urls}
    /\ inv = [t \in Threads |-> Idle]
    /\ call = NoCall
    /\ futures = << >>
    /\ queue = << >>
    /\ last = NoInvocation
    /\ ncalls = 0

\* Servers and disk have answered invocation t as the trial has it.
SameAnswers(t) ==
    inv[t].pc # "idle" =>
        LET i    == inv[t]
            get  == trial.get[i.url]
            full == files[file_path(i.url)]
        IN  /\ i.fetched = 1 =>
                  IF get = ConnectionError
                    THEN i.failed_at = "get"
                    ELSE i.response = get
            /\ \A p \in i.wrote : trial.disk[p] = "ok"
            /\ i.pc = "persist_write" => trial.disk[i.wpath] # "open"
            /\ i.failed_at = "persist_open" => trial.disk[i.wpath] = "open"
            /\ i.failed_at = "persist_write" => trial.disk[i.wpath] = "write"
            /\ (i.failed_at = "thumb_open" /\ full = Truncated) => ~trial.header
            /\ (i.orig_img = LazyImage /\ full = Truncated) => trial.header

Distinct(urls) ==
    \A j, k \in 1 .. Len(urls) : urls[j] = urls[k] => j = k

\* __call__(urls, force) with a list of pairwise distinct urls.
EquivCallList ==
    /\ trial.phase = "list"
    /\ call.kind = "none"
    /\ CallList
    /\ Distinct(call'.urls)

\* The list call has returned: what it returned and left is kept, and
\* download(urls, n_workers=n, force=force) begins on the store the list
\* call began on.
EquivCallDownload ==
    /\ trial.phase = "list"
    /\ call.kind = "list" /\ call.pc = "returned"
    /\ \E n_workers \in 1 .. MaxWorkers :
          call' = NewCall("pool", call.urls, call.force, n_workers, << >>)
    /\ futures' = [k \in 1 .. Len(call.urls) |-> NewFuture]
    /\ queue' = << >>
    /\ files' = trial.start
    /\ last' = NoInvocation
    /\ trial' = [trial EXCEPT !.phase = "pool", !.results = call.results,
                                !.files = files]
    /\ UNCHANGED <<thumbs_size, network, inv, ncalls>>

EquivNext ==
    \/ EquivCallList
    \/ ListIterate
    \/ ListStore
    \/ ListExcept
    \/ EquivCallDownload
    \/ Submit
    \/ \E w \in Workers : WorkerTake(w)
    \/ \E w \in Workers : WorkerReturn(w)
    \/ \E w \in Workers : WorkerRaise(w)
    \/ Collect
    \/ ReturnResults
    \/ \E t \in Threads : download_image(t) /\ SameAnswers(t)'

EquivSpec == EquivInit /\ [][EquivNext]_vars

(* ------------------------------ properties ----------------------------- *)

Past(t, pcs) == inv[t].pc \notin ({"idle"} \cup pcs)

ThumbPaths(url) == {thumb_path(url, thumbs_size[k]) : k \in 1 .. Len(thumbs_size)}

\* The thumbnail paths of the configured thumbnails that held no file when
\* invocation t began.
MissingBefore(t) ==
    {thumb_path(inv[t].url, thumbs_size[k]) :
        k \in (1 .. Len(thumbs_size)) \ inv[t].thumbs_before}

\* How item k of the batch ended: the failure marker or its checksum.
Outcome(k) ==
    IF futures[k].exception # "none" THEN None ELSE futures[k].result

\* C1: an invocation without force that found the full-image file in place
\* makes no network fetch, and the file holds the bytes it held before.
C1_NoFetchWhenFullExists ==
    (Past(0, {"check"}) /\ inv[0].existed /\ ~inv[0].force) =>
        /\ inv[0].fetched = 0
        /\ file_path(inv[0].url) \notin inv[0].wrote
        /\ files[file_path(inv[0].url)] = inv[0].before

\* A non-forced invocation returned on a cache hit after writing a thumbnail.
C1_Witness ==
    /\ inv[0].pc = "returned"
    /\ inv[0].existed /\ ~inv[0].force
    /\ inv[0].before # Truncated
    /\ inv[0].wrote # {}

\* C2: when download() has returned, the mapping has exactly the input
\* identifiers as keys, and each key holds the outcome of an item of that
\* identifier: None if its pipeline raised, its checksum if it returned.
C2_EveryIdentifierMapped ==
    (call.kind = "pool" /\ call.pc = "returned") =>
        /\ DOMAIN call.results = {call.urls[k] : k \in Items}
        /\ \A u \in DOMAIN call.results :
              \E k \in Items : call.urls[k] = u /\ call.results[u] = Outcome(k)
        /\ \A k \in Items :
              (\A j \in Items \ {k} : call.urls[j] # call.urls[k]) =>
                  /\ call.results[call.urls[k]] = Outcome(k)
                  /\ futures[k].exception # "none" <=> call.results[call.urls[k]] = None

\* download() returned a mapping with a failed and a succeeded identifier.
C2_Witness ==
    /\ call.kind = "pool" /\ call.pc = "returned"
    /\ \E j, k \in Items :
          /\ call.urls[j] # call.urls[k]
          /\ futures[j].exception # "none" /\ call.results[call.urls[j]] = None
          /\ futures[k].exception = "none" /\ call.results[call.urls[k]] # None

\* C3: when download() has returned, every item has run and ended (returned
\* or raised): none waits, none was dropped, no pipeline is running.
C3_ReturnsAfterAllItems ==
    (call.kind = "pool" /\ call.pc = "returned") =>
        /\ \A k \in Items : Finished(k)
        /\ queue = << >>
        /\ \A w \in Workers : inv[w].pc = "idle"

\* download() returned after one item raised and an item submitted after it
\* ran to its checksum.
C3_Witness ==
    /\ call.kind = "pool" /\ call.pc = "returned"
    /\ \E j, k \in Items :
          /\ j < k
          /\ futures[j].exception # "none"
          /\ futures[k].exception = "none" /\ futures[k].result # None

\* C4: a non-forced invocation that follows a non-forced invocation of the
\* same identifier that returned a checksum makes no network fetch, does not
\* raise, and returns that same checksum.
C4_SecondInvocationSame ==
    \A t \in Threads :
        ( /\ inv[t].pc # "idle" /\ ~inv[t].force
          /\ inv[t].after.kind = "returned"
          /\ inv[t].after.url = inv[t].url
          /\ ~inv[t].after.force ) =>
            /\ inv[t].fetched = 0
            /\ inv[t].pc # "raised"
            /\ inv[t].pc = "returned" => inv[t].result = inv[t].after.result

\* The second of two non-forced invocations of one identifier has returned.
C4_Witness ==
    /\ inv[0].pc = "returned" /\ ~inv[0].force
    /\ inv[0].after.kind = "returned"
    /\ inv[0].after.url = inv[0].url
    /\ ~inv[0].after.force

\* C5: a forced invocation fetches whatever the store holds, and when it
\* returns it has written the full image and every configured thumbnail in
\* this invocation, those that were already there included.
C5_ForceBypassesChecks ==
    \A t \in Threads :
        (inv[t].pc # "idle" /\ inv[t].force) =>
            /\ Past(t, {"check", "get"}) => inv[t].fetched = 1
            /\ inv[t].pc = "returned" =>
                  inv[t].wrote = {file_path(inv[t].url)} \cup ThumbPaths(inv[t].url)

\* A forced invocation returned that found the full image and both
\* thumbnails in place.
C5_Witness ==
    /\ inv[0].pc = "returned" /\ inv[0].force
    /\ inv[0].existed
    /\ Len(thumbs_size) = 2
    /\ inv[0].thumbs_before = {1, 2}

\* C6: an invocation has slept only if it fetched: never after a cache hit,
\* and so never in an invocation that only made thumbnails.
C6_SleepOnlyAfterFetch ==
    \A t \in Threads :
        (inv[t].pc # "idle" /\ inv[t].slept) =>
            /\ inv[t].fetched = 1
            /\ inv[t].response # None
            /\ file_path(inv[t].url) \in inv[t].wrote
            /\ t = 0 => ~(inv[t].existed /\ ~inv[t].force)

\* An invocation that made a thumbnail from the stored full image returned
\* without having slept.
C6_Witness ==
    /\ inv[0].pc = "returned"
    /\ inv[0].fetched = 0
    /\ inv[0].wrote # {}
    /\ ~inv[0].slept

\* C7: a single call ends as its download_image invocation ended: raised
\* with the invocation's error, or returned with its checksum. A list call
\* and download() never raise, whatever their items did.
C7_FailureVisibility ==
    /\ (call.kind = "single" /\ call.pc = "raised") =>
            call.error # "none" /\ last = NoInvocation
    /\ (call.kind = "single" /\ call.pc = "returned") =>
            last.kind = "returned" /\ call.results = last.result /\ call.results # None
    /\ call.kind \in {"list", "pool"} => call.pc # "raised"
    /\ (call.kind = "list" /\ call.pc = "returned") =>
            call.i = Len(call.urls) + 1

\* A list call returned with the failure marker for one item and a checksum
\* for an item after it.
C7_Witness ==
    /\ call.kind = "list" /\ call.pc = "returned"
    /\ \E j, k \in Items :
          j < k /\ call.results[j] = None /\ call.results[k] # None

\* C8: the checksum an invocation returns is the digest of the bytes at
\* file_path(url) when it returns, and still when the call has ended.
C8_ChecksumOfDisk ==
    /\ \A t \in Threads :
          inv[t].pc = "returned" =>
              inv[t].result = md5sum(files[file_path(inv[t].url)])
    /\ (inv[0].pc = "idle" /\ last.kind = "returned") =>
          last.result = md5sum(files[file_path(last.url)])

\* An invocation returned the checksum of a file it wrote itself, over a
\* file that was there before.
C8_Witness ==
    /\ inv[0].pc = "returned"
    /\ inv[0].existed
    /\ file_path(inv[0].url) \in inv[0].wrote
    /\ files[file_path(inv[0].url)] # inv[0].before

\* C9: a non-forced invocation that found the full image in place and
\* returned has written exactly the thumbnails that were missing, each made
\* from the stored full image, and has fetched nothing.
C9_MissingThumbsOnly ==
    (inv[0].pc = "returned" /\ inv[0].existed /\ ~inv[0].force) =>
        /\ inv[0].fetched = 0
        /\ inv[0].wrote = MissingBefore(0)
        /\ \A p \in MissingBefore(0) :
              LET full == files[file_path(inv[0].url)]
              IN  /\ files[p].kind = "jpeg"
                  /\ files[p].pix = full.pix
                  /\ files[p].bg = full.bg
                  /\ files[p].size = p[2]
                  /\ files[p].gen = full.gen + 1

\* An earlier invocation stored the full image and the first thumbnail and
\* failed; a later one, not forced, returned having made the second.
C9_Witness ==
    /\ inv[0].pc = "returned" /\ inv[0].existed /\ ~inv[0].force
    /\ Len(thumbs_size) = 2
    /\ inv[0].thumbs_before = {1}
    /\ inv[0].wrote = {thumb_path(inv[0].url, thumbs_size[2])}

\* C10: during download() at most n_workers threads hold an item, and an
\* item that has been taken and has not ended is held by exactly one thread.
C10_AtMostNWorkers ==
    call.kind = "pool" =>
        /\ Cardinality({w \in Workers : inv[w].pc # "idle"}) <= call.n_workers
        /\ \A k \in Items :
              futures[k].state = "running" <=>
                  \E w \in Workers : inv[w].pc # "idle" /\ inv[w].item = k
        /\ \A v, w \in Workers :
              (inv[v].pc # "idle" /\ inv[w].pc # "idle" /\ inv[v].item = inv[w].item)
                  => v = w

\* Every thread of the pool runs a pipeline while an item waits in the queue.
C10_Witness ==
    /\ call.kind = "pool"
    /\ queue # << >>
    /\ \A w \in 1 .. call.n_workers : Running(w)

\* C11: within one download(), no two workers run the pipeline of the same
\* identifier at the same time (so none works on a path another works on),
\* and no key of the result mapping is written more than once; for every
\* input list, one that names an identifier twice included.
C11_OneWorkerPerIdentifier ==
    call.kind = "pool" =>
        /\ \A v, w \in Workers :
              (inv[v].pc # "idle" /\ inv[w].pc # "idle" /\ inv[v].url = inv[w].url)
                  => v = w
        /\ \A j, k \in call.collected :
              call.urls[j] = call.urls[k] => j = k

\* C12: a fetch that ended in a connection error, in a status other than
\* success, or in a body that is empty or no image makes download_image
\* raise, and the full-image file is not written from that response.
C12_BadFetchRaises ==
    \A t \in Threads :
        (inv[t].pc \notin {"idle", "check", "get"} /\ inv[t].fetched = 1) =>
            /\ inv[t].response = None => inv[t].pc = "raised"
            /\ ( /\ inv[t].response # None
                 /\ \/ inv[t].response.status # 200
                    \/ ~Decodable(inv[t].response.content) ) =>
                  /\ inv[t].pc \in {"normalize", "raised"}
                  /\ file_path(inv[t].url) \notin inv[t].wrote

\* C13: no existence check accepts a file cut short by a write that failed,
\* no thumbnail is made from one, and no checksum is taken of one.
C13_WholeFileWrites ==
    /\ (Past(0, {"check"}) /\ inv[0].existed) => inv[0].before # Truncated
    /\ \A t \in Threads :
          inv[t].pc = "returned" =>
              /\ inv[t].result # md5sum(Truncated)
              /\ \A p \in ThumbPaths(inv[t].url) : files[p] # Truncated

\* The thumbnails configured after the one invocation record i is at.
LaterThumbPaths(i) ==
    {thumb_path(i.url, thumbs_size[k]) : k \in (i.ti + 1) .. Len(thumbs_size)}

\* C14: in an invocation the fetch comes before the normalization, that
\* before the persist of the full image, that before the sleep, and the
\* sleep before every thumbnail; the checksum comes after the last thumbnail.
C14_StepsInOrder ==
    \A t \in Threads :
        inv[t].pc # "idle" =>
            LET i    == inv[t]
                full == file_path(i.url)
            IN  /\ i.pc = "normalize" => (i.fetched = 1 /\ i.response # None)
                /\ (i.wpath = full \/ full \in i.wrote) =>
                      /\ i.fetched = 1 /\ i.response # None
                      /\ i.wbuf.kind = "jpeg"
                      /\ full \in i.wrote =>
                            files[full] = convert_image(i.response.content, "full").buf
                /\ (i.pc = "sleep" \/ i.slept) => full \in i.wrote
                /\ (InThumbnails(i) \/ i.wrote \cap ThumbPaths(i.url) # {}) =>
                      /\ Exists(full)
                      /\ i.fetched = 1 => (full \in i.wrote /\ i.slept)
                /\ i.pc \in {"md5", "returned"} =>
                      /\ i.ti = Len(thumbs_size) + 1
                      /\ i.fetched = 1 => i.slept
                /\ i.result # None => i.pc = "returned"

\* A forced invocation over a stored image returned: it fetched, wrote the
\* full image, slept and then wrote both thumbnails.
C14_Witness ==
    /\ inv[0].pc = "returned" /\ inv[0].force /\ inv[0].existed
    /\ inv[0].slept
    /\ Len(thumbs_size) = 2
    /\ ThumbPaths(inv[0].url) \subseteq inv[0].wrote

\* A step of the thumbnail loop of invocation record i has failed.
ThumbFailed(i) ==
    \/ i.failed_at \in {"thumb_open", "thumb_convert"}
    \/ i.failed_at \in {"persist_open", "persist_write"} /\ i.wpath # file_path(i.url)

\* C15 as claimed: a failure while producing a thumbnail does not fail the
\* item; the invocation does not raise and a batch has a checksum for it.
C15_ThumbFailureIsolated ==
    \A t \in Threads :
        (inv[t].pc # "idle" /\ ThumbFailed(inv[t])) =>
            /\ inv[t].pc # "raised"
            /\ (call.kind = "list" /\ call.i > inv[t].item) =>
                  call.results[inv[t].item] # None

\* C15, amended: a failure while producing a thumbnail ends the invocation
\* there with the exception: no checksum, the thumbnails after it are not
\* written, a list call keeps the failure marker for the item; the full
\* image stays in the store, whole if this invocation wrote it.
C15_ThumbFailureFailsItem ==
    \A t \in Threads :
        (inv[t].pc # "idle" /\ ThumbFailed(inv[t])) =>
            LET i    == inv[t]
                full == file_path(i.url)
            IN  /\ i.pc = "raised" /\ i.result = None
                /\ i.ti <= Len(thumbs_size)
                /\ i.wrote \cap LaterThumbPaths(i) = {}
                /\ thumb_path(i.url, thumbs_size[i.ti]) \notin i.wrote
                /\ Exists(full)
                /\ full \in i.wrote =>
                      files[full] = convert_image(i.response.content, "full").buf
                /\ call.kind = "list" => call.results[i.item] = None

\* In a list call an invocation stored the full image and then failed at
\* the first of two thumbnails; the second was not made.
C15_Witness ==
    /\ call.kind = "list"
    /\ inv[0].pc = "raised" /\ ThumbFailed(inv[0])
    /\ file_path(inv[0].url) \in inv[0].wrote
    /\ Len(thumbs_size) = 2 /\ inv[0].ti = 1
    /\ ~Exists(thumb_path(inv[0].url, thumbs_size[2]))

\* C16: an invocation opens the stored full image at most once, and only
\* when it did not fetch (so was not forced) and a thumbnail was missing; a
\* cache hit with every thumbnail in place does not open it.
C16_LazyDecode ==
    \A t \in Threads :
        inv[t].pc # "idle" =>
            /\ inv[t].opened <= 1
            /\ inv[t].opened = 1 =>
                  /\ inv[t].fetched = 0 /\ ~inv[t].force
                  /\ t = 0 => (inv[t].existed /\ MissingBefore(t) # {})
            /\ inv[t].orig_img = LazyImage => inv[t].opened = 1
            /\ (t = 0 /\ Past(t, {"check"}) /\ MissingBefore(t) = {} /\ ~inv[t].force) =>
                  inv[t].opened = 0
            /\ inv[t].fetched = 1 => inv[t].opened = 0

\* A non-forced invocation found the full image and neither thumbnail, and
\* returned having made both from one opening of the stored file.
C16_Witness ==
    /\ inv[0].pc = "returned" /\ inv[0].existed /\ ~inv[0].force
    /\ Len(thumbs_size) = 2 /\ inv[0].thumbs_before = {}
    /\ inv[0].wrote = ThumbPaths(inv[0].url)
    /\ inv[0].opened = 1

\* C17: an invocation that failed in the fetch or in decoding the fetched
\* bytes has opened no file for writing and written none: the full image
\* is as it was found (absent, or the earlier bytes under force) and the
\* same thumbnails exist as before.
C17_FailedFetchKeepsStore ==
    (inv[0].pc = "raised" /\ inv[0].failed_at \in {"get", "normalize"}) =>
        /\ inv[0].fetched = 1
        /\ inv[0].wpath = << >> /\ inv[0].wrote = {}
        /\ files[file_path(inv[0].url)] = inv[0].before
        /\ MissingBefore(0) = {p \in ThumbPaths(inv[0].url) : ~Exists(p)}

\* A forced invocation over a stored, whole full image failed decoding the
\* fetched bytes.
C17_Witness ==
    /\ inv[0].pc = "raised" /\ inv[0].failed_at = "normalize"
    /\ inv[0].force /\ inv[0].existed
    /\ inv[0].before \notin {NoFile, Truncated}

\* C18: when an invocation has returned, the full-image file and the file
\* of every configured thumbnail exist.
C18_AllArtifactsExist ==
    \A t \in Threads :
        inv[t].pc = "returned" =>
            /\ Exists(file_path(inv[t].url))
            /\ \A p \in ThumbPaths(inv[t].url) : Exists(p)

\* An invocation on an identifier with nothing stored returned, with two
\* thumbnails configured.
C18_Witness ==
    /\ inv[0].pc = "returned" /\ ~inv[0].existed /\ ~inv[0].force
    /\ Len(thumbs_size) = 2
    /\ inv[0].wrote = {file_path(inv[0].url)} \cup ThumbPaths(inv[0].url)

\* C19: for a list of pairwise distinct identifiers, download() returns for
\* every identifier what the list call returned for it, and leaves the
\* store the list call left, from the same store and with the same answers
\* of servers and disk, for every worker count and every interleaving.
C19_PoolAgreesWithList ==
    (trial.phase = "pool" /\ call.kind = "pool" /\ call.pc = "returned") =>
        /\ DOMAIN call.results = {call.urls[k] : k \in Items}
        /\ \A k \in Items :
              /\ call.urls[k] \in DOMAIN call.results
              /\ call.results[call.urls[k]] = trial.results[k]
        /\ files = trial.files

\* download() with two workers returned for two identifiers, one failed
\* and one with a checksum, on a store that held files at the start and
\* was changed by the call.
C19_Witness ==
    /\ trial.phase = "pool" /\ call.kind = "pool" /\ call.pc = "returned"
    /\ Len(call.urls) = 2 /\ call.n_workers = 2
    /\ \E j, k \in Items :
          call.results[call.urls[j]] = None /\ call.results[call.urls[k]] # None
    /\ \E p \in Paths : trial.start[p] # NoFile
    /\ files # trial.start

====
